---- MODULE Spec2Model ----
(***************************************************************************)
(* Model of the S.P.A.R.E extension's background message router            *)
(* (background.js), of the DAVSS scorer (davssService.js) and of the       *)
(* on-page feature extraction (content.js).                                *)
(*                                                                         *)
(* Strings are sequences of tokens.  A token is an atomic piece of text    *)
(* on which the regular expressions and the URL parser of the source act   *)
(* as a whole:                                                             *)
(*   "https://" "http://"    a scheme prefix                               *)
(*   "www." "WWW."           a www label, lower and upper case             *)
(*   "example.com" ...       host text (letters, digits, '-', '.')         *)
(*   "EXAMPLE.COM"           host text in upper case                       *)
(*   "/" "?q" "#f"           start of a path, a query, a fragment          *)
(*   ":x"                    a port that is not a number                   *)
(*   "https" "http"          the word left of "://" when a URL parser      *)
(*                           reads a scheme prefix inside an authority     *)
(*   "https:" "http:"        what split('/')[0] leaves of a scheme prefix  *)
(* The empty sequence is the empty string; it also stands for an absent    *)
(* (undefined) field, which the source treats alike (both are falsy).      *)
(***************************************************************************)
EXTENDS Integers, Sequences, FiniteSets, Bags, TLC

\* ------------------------------------------------------------------ bounds
MaxInFlight == 2
MaxResults  == 3
MaxTokens   == 4
MaxChars    == 3

\* --------------------------------------------------------- string helpers
Scheme == {"https://", "http://"}

Www == {"www.", "WWW."}

PathStart == {"/", "?q", "#f"}

\* String.prototype.toLowerCase, token by token
LowerTok(t) ==
  CASE t = "WWW."        -> "www."
    [] t = "EXAMPLE.COM" -> "example.com"
    [] OTHER             -> t

toLowerCase(s) == [i \in DOMAIN s |-> LowerTok(s[i])]

\* the word of a scheme prefix, and what is left of it before its first '/'
SchemeWord(t) == IF t = "https://" THEN "https" ELSE "http"

SchemeCut(t) == IF t = "https://" THEN "https:" ELSE "http:"

\* s.replace(/^https?:\/\//, '')
StripScheme(s) == IF s # <<>> /\ Head(s) \in Scheme THEN Tail(s) ELSE s

\* s.replace(/^www\./i, '')
StripWww(s) == IF s # <<>> /\ Head(s) \in Www THEN Tail(s) ELSE s

\* s.startsWith('http')
StartsWithHttp(s) ==
  s # <<>> /\ Head(s) \in (Scheme \cup {"https", "http", "https:", "http:"})

\* index of the first token of s that lies in T, Len(s)+1 if there is none
RECURSIVE FirstIn(_, _, _)
FirstIn(s, T, i) ==
  IF i > Len(s) THEN Len(s) + 1
  ELSE IF s[i] \in T THEN i
  ELSE FirstIn(s, T, i + 1)

\* s.split('/')[0]: the text before the first '/' character, which is at
\* token i.  A scheme prefix holds a '/', so it is cut to "https:" / "http:".
CutAtSlash(s, i) ==
  IF i > Len(s) THEN s
  ELSE IF s[i] \in Scheme THEN Append(SubSeq(s, 1, i - 1), SchemeCut(s[i]))
  ELSE SubSeq(s, 1, i - 1)

SplitSlash(s) == CutAtSlash(s, FirstIn(s, Scheme \cup {"/"}, 1))

\* s.split(c)[0] for c = '?' and c = '#'
SplitAt(s, t) == SubSeq(s, 1, FirstIn(s, {t}, 1) - 1)

\* new URL(s).hostname for a special (http/https) scheme.  The result is
\* NoURL when the constructor throws.  After the scheme the parser skips
\* further slashes, reads the authority up to the next '/', '?' or '#', and
\* fails on an empty host or a port that is not a number.  A scheme prefix
\* inside the authority reads as the host word "https" followed by an empty
\* port.  The host comes out in lower case.
NoURL == [ok |-> FALSE, hostname |-> <<>>]

RECURSIVE SkipSlashes(_)
SkipSlashes(s) == IF s # <<>> /\ Head(s) = "/" THEN SkipSlashes(Tail(s)) ELSE s

\* the host of the authority that ends before token i of rest
HostAt(rest, i) ==
  IF i <= Len(rest) /\ rest[i] \in Scheme
    THEN Append(SubSeq(rest, 1, i - 1), SchemeWord(rest[i]))
  ELSE IF i = Len(rest) /\ rest[i] \in {"https:", "http:"}
    THEN Append(SubSeq(rest, 1, i - 1), IF rest[i] = "https:" THEN "https" ELSE "http")
  ELSE SubSeq(rest, 1, i - 1)

\* badPort: text that is no number follows the ':' of the authority
HostResult(host, badPort) ==
  IF host = <<>> \/ badPort \/ \E k \in DOMAIN host : host[k] = ":x" THEN NoURL
  ELSE [ok |-> TRUE, hostname |-> toLowerCase(host)]

AuthorityAt(rest, i) ==
  HostResult(HostAt(rest, i), i < Len(rest) /\ rest[i] \in {"https:", "http:"})

AfterScheme(rest) ==
  AuthorityAt(rest, FirstIn(rest, PathStart \cup Scheme \cup {"https:", "http:"}, 1))

URLHostname(s) ==
  IF s = <<>> \/ Head(s) \notin Scheme THEN NoURL
  ELSE AfterScheme(SkipSlashes(Tail(s)))

\* the catch branch of standardizeDomain (lines 39-45)
standardizeDomainFallback(domain) ==
  SplitAt(SplitAt(SplitSlash(StripWww(StripScheme(toLowerCase(domain)))), "?q"), "#f")

\* line 30: cleanDomain.startsWith('http') ? cleanDomain : `https://${cleanDomain}`
WithScheme(cleanDomain) ==
  IF StartsWithHttp(cleanDomain) THEN cleanDomain ELSE <<"https://">> \o cleanDomain

\* lines 31-36 when new URL(...) succeeded, else the catch branch
HostnameOrFallback(url, domain) ==
  IF url.ok THEN toLowerCase(StripWww(url.hostname))
  ELSE standardizeDomainFallback(domain)

standardizeDomain(domain) ==
  IF domain = <<>> THEN <<>>
  ELSE HostnameOrFallback(URLHostname(WithScheme(StripWww(StripScheme(domain)))),
                          domain)

\* ---------------------------------------------------------------- numbers
\* A JavaScript number that is a ratio of two small integers, kept as a
\* reduced fraction: two divisions give the same double exactly when the
\* reduced fractions are equal (7/10 === 0.7).
RECURSIVE GCD(_, _)
GCD(a, b) == IF b = 0 THEN a ELSE GCD(b, a % b)

Frac(n, d) == LET g == GCD(n, d) IN [num |-> n \div g, den |-> d \div g]

Zero == [num |-> 0, den |-> 1]

MinusOne == [num |-> -1, den |-> 1]

\* ------------------------------------------------- visual search results
\* One entry of a result list: an object with a domain and a url field
\* (<<>> when the field is absent or empty), or null.
Entry(domain, url) == [isNull |-> FALSE, domain |-> domain, url |-> url]

NullEntry == [isNull |-> TRUE, domain |-> <<>>, url |-> <<>>]

\* What the visual search promise resolves with: an array of entries, or a
\* value that is not an array (null, an object).
ArrayOf(items) == [kind |-> "array", items |-> items]

NotArray(kind) == [kind |-> kind, items |-> <<>>]

\* the canned list of fetchVisualSearchResults
mockResults ==
  << Entry(<<"google.com">>, <<"https://", "www.", "google.com", "/", "?q">>),
     Entry(<<"example.com">>, <<"https://", "example.com", "/">>),
     Entry(<<"example.com">>, <<"https://", "www.", "example.com", "/">>),
     Entry(<<"example.com">>, <<"https://", "example.com", "/">>),
     Entry(<<"legitimate-brand.com">>, <<"https://", "legitimate-brand.com", "/">>),
     Entry(<<"example.com">>, <<"https://", "www.", "example.com", "/">>),
     Entry(<<"example.com">>, <<"https://", "example.com", "/">>),
     Entry(<<"other-site.com">>, <<"https://", "other-site.com", "/">>),
     Entry(<<"example.com">>, <<"https://", "example.com", "/">>),
     Entry(<<"example.com">>, <<"https://", "example.com", "/">>) >>

\* result.url.match(/https?:\/\/([^\/]+)/): the text after the first scheme
\* prefix that is followed by a character other than '/', up to the next '/'
RECURSIVE RegexHost(_)
RegexMatch(m, rest) == IF m # <<>> THEN m ELSE RegexHost(rest)

RegexAfter(rest) == RegexMatch(SplitSlash(rest), rest)

RegexFrom(s, i) == IF i > Len(s) THEN <<>> ELSE RegexAfter(SubSeq(s, i + 1, Len(s)))

RegexHost(s) == RegexFrom(s, FirstIn(s, Scheme, 1))

\* lines 108-117: the hostname of the parsed url, else the regex match
HostnameOrMatch(u, url) == IF u.ok THEN u.hostname ELSE RegexHost(url)

\* the domain extractDomainsFromResults reads off one result (before it is
\* standardized); <<>> when the result gives none
EntryDomain(result) ==
  IF result.domain # <<>> THEN result.domain
  ELSE IF result.url # <<>> THEN HostnameOrMatch(URLHostname(result.url), result.url)
  ELSE <<>>

\* lines 120-122 for one result, before the domains of the later results
PushDomain(domain, rest) ==
  IF rest.threw THEN rest
  ELSE [threw   |-> FALSE,
        domains |-> (IF domain # <<>> THEN <<standardizeDomain(domain)>> ELSE <<>>)
                    \o rest.domains]

\* extractDomainsFromResults: threw is TRUE when an entry is null (reading
\* result.domain raises a TypeError)
RECURSIVE extractDomainsFromResults(_)
extractDomainsFromResults(results) ==
  IF results = <<>> THEN [threw |-> FALSE, domains |-> <<>>]
  ELSE IF Head(results).isNull THEN [threw |-> TRUE, domains |-> <<>>]
  ELSE PushDomain(EntryDomain(Head(results)),
                  extractDomainsFromResults(Tail(results)))

\* number of entries of list equal to d
RECURSIVE CountOf(_, _)
CountOf(list, d) ==
  IF list = <<>> THEN 0
  ELSE (IF Head(list) = d THEN 1 ELSE 0) + CountOf(Tail(list), d)

\* frequencyMap is a plain object, so a key that Object.prototype already
\* has ("constructor") starts from the inherited function instead of 0 and
\* its count becomes a string: no number, written -1 here.
Inherited == {<<"constructor">>}

FrequencyOf(list, d) == IF d \in Inherited THEN -1 ELSE CountOf(list, d)

\* the keys of frequencyMap in insertion order: the non-empty domains in
\* the order of their first occurrence
RECURSIVE FrequencyKeys(_, _)
FrequencyKeys(list, seen) ==
  IF list = <<>> THEN <<>>
  ELSE IF Head(list) = <<>> \/ Head(list) \in seen
    THEN FrequencyKeys(Tail(list), seen)
  ELSE <<Head(list)>> \o FrequencyKeys(Tail(list), seen \cup {Head(list)})

\* the loop over Object.entries(frequencyMap): count > maxCount replaces
RECURSIVE MaxLoop(_, _, _, _)
MaxStep(keys, list, best, maxCount, count) ==
  IF count > maxCount THEN MaxLoop(Tail(keys), list, Head(keys), count)
  ELSE MaxLoop(Tail(keys), list, best, maxCount)

MaxLoop(keys, list, best, maxCount) ==
  IF keys = <<>> THEN [domain |-> best, count |-> maxCount]
  ELSE MaxStep(keys, list, best, maxCount, FrequencyOf(list, Head(keys)))

findMostFrequentDomain(domainList) ==
  IF domainList = <<>> THEN [domain |-> <<>>, count |-> 0]
  ELSE MaxLoop(FrequencyKeys(domainList, {}), domainList, <<>>, 0)

\* line 243 without the slice
Slice_All(list, topN) == list

\* vseResults.slice(0, topN) for an integer topN
Slice(list, topN) ==
  IF topN >= 0 THEN SubSeq(list, 1, IF topN < Len(list) THEN topN ELSE Len(list))
  ELSE SubSeq(list, 1, IF Len(list) + topN > 0 THEN Len(list) + topN ELSE 0)

\* ------------------------------------------------------------ DavssResult
\* errorMessage is a sequence of text pieces, <<>> for null
ErrorResult(total, message) ==
  [ similarityScore |-> MinusOne,
    confidenceScore |-> Zero,
    currentDomain   |-> <<>>,
    trueDomain      |-> <<>>,
    frequencyCount  |-> 0,
    totalResults    |-> total,
    error           |-> TRUE,
    errorMessage    |-> message ]

\* the division of line 276 with its operands exchanged
Confidence_Inverted(frequencyCount, total) == Frac(total, frequencyCount)

\* davssService.js:276: frequencyCount / domainList.length
Confidence(frequencyCount, total) == Frac(frequencyCount, total)

\* the comparison of line 284 negated
Similarity_Negated(domainCurrent, trueDomain, confidenceScore) ==
  IF domainCurrent # trueDomain THEN Zero ELSE confidenceScore

\* davssService.js:283-290: the final comparison
Similarity(domainCurrent, trueDomain, confidenceScore) ==
  IF domainCurrent = trueDomain THEN Zero ELSE confidenceScore

\* What the body of the outer try of calculateDavssScore comes to: threw
\* tells that it raised an error instead of returning a result; the calls
\* count how often extractDomainsFromResults and findMostFrequentDomain were
\* called on the way.
Returned(result, extractCalls, frequencyCalls) ==
  [ threw |-> FALSE, message |-> "none", result |-> result,
    extractCalls |-> extractCalls, frequencyCalls |-> frequencyCalls ]

Threw(message, extractCalls, frequencyCalls) ==
  [ threw |-> TRUE, message |-> message, result |-> ErrorResult(0, <<>>),
    extractCalls |-> extractCalls, frequencyCalls |-> frequencyCalls ]

\* lines 283-301
CompareStage(confidenceScore, domainCurrent, trueDomain, frequencyCount, total) ==
  Returned([ similarityScore |-> Similarity(domainCurrent, trueDomain,
                                            confidenceScore),
             confidenceScore |-> confidenceScore,
             currentDomain   |-> domainCurrent,
             trueDomain      |-> trueDomain,
             frequencyCount  |-> frequencyCount,
             totalResults    |-> total,
             error           |-> FALSE,
             errorMessage    |-> <<>> ], 1, 1)

\* lines 260-280
AnalyzeStage(most, domainList, currentUrl) ==
  IF most.domain = <<>>
    THEN Returned(ErrorResult(Len(domainList),
                              <<"Could not determine most frequent domain">>), 1, 1)
  ELSE CompareStage(Confidence(most.count, Len(domainList)),
                    standardizeDomain(currentUrl), standardizeDomain(most.domain),
                    most.count, Len(domainList))

\* lines 244-257
ExtractStage(extracted, topResults, currentUrl) ==
  IF extracted.threw THEN Threw("Cannot read properties of null", 1, 0)
  ELSE IF extracted.domains = <<>>
    THEN Returned(ErrorResult(Len(topResults),
                              <<"No valid domains found in VSE results">>), 1, 0)
  ELSE AnalyzeStage(findMostFrequentDomain(extracted.domains), extracted.domains,
                    currentUrl)

\* line 243
SliceStage(topResults, currentUrl) ==
  ExtractStage(extractDomainsFromResults(topResults), topResults, currentUrl)

\* line 216 without its length test
NoResults_ArrayOnly(vseResults) == vseResults.kind # "array"

\* davssService.js:216: !vseResults || !Array.isArray(vseResults) ||
\* vseResults.length === 0
NoResults(vseResults) == vseResults.kind # "array" \/ vseResults.items = <<>>

\* the body of the outer try from the point where the visual search has
\* resolved with vseResults (lines 216-301)
ScoreBody(currentUrl, topN, vseResults) ==
  IF NoResults(vseResults)
    THEN Returned(ErrorResult(0, <<"VSE returned no results">>), 0, 0)
  ELSE SliceStage(Slice(vseResults.items, topN), currentUrl)

\* How the promise of calculateDavssScore settles once the body has run:
\* the outer catch (lines 303-315) turns an error raised by the body into
\* an error result, so the promise is fulfilled either way.
Fulfilled(result) == [rejected |-> FALSE, result |-> result, message |-> "none"]

\* calculateDavssScore without its outer try/catch
Settle_NoOuterCatch(body) ==
  IF body.threw
    THEN [rejected |-> TRUE, result |-> ErrorResult(0, <<>>), message |-> body.message]
  ELSE Fulfilled(body.result)

Settle(body) ==
  IF body.threw
    THEN Fulfilled(ErrorResult(0, <<"Unexpected error: ", body.message>>))
  ELSE Fulfilled(body.result)

\* ------------------------------------------------------ values and inputs
\* null, and a key that chrome.storage.local does not hold
Null == [null |-> TRUE]

Unset == [unset |-> TRUE]

\* sender.tab: absent for a message from the popup, present for a message
\* from a content script
NoTab == [present |-> FALSE, id |-> 0, url |-> <<>>]

\* A message as the listener sees it.  An absent field has the value its
\* use in the handler gives it: Null for data, <<>> for domain and url,
\* 0 for tabId and topN (all falsy, as undefined is).
Msg(type, data, domain, tabId, url, topN, tab) ==
  [ type |-> type, data |-> data, domain |-> domain, tabId |-> tabId,
    url |-> url, topN |-> topN, senderTab |-> tab ]

Plain(type) == Msg(type, Null, <<>>, 0, <<>>, 0, NoTab)

NoMsg == Plain("none")

U1 == <<"https://", "www.", "example.com", "/">>

U2 == <<"https://", "phish-example.com", "/">>

PageTab == [present |-> TRUE, id |-> 7, url |-> U2]

PageFeatures == {[page |-> "p1"], [page |-> "p2"]}

\* the messages of the router specification
RouterMessages ==
     {Msg("phiusiil_features", d, <<>>, 0, <<>>, 0, PageTab) : d \in PageFeatures}
  \cup {Plain("get_latest_features"), Plain("get_offpage_results"),
        Plain("get_davss_results"), Plain("ping")}
  \cup {Msg("run_offpage_analysis", Null, d, 0, <<>>, 0, NoTab) :
          d \in {<<>>, <<"WWW.">>, <<"www.", "EXAMPLE.COM">>}}
  \cup {Msg("run_davss_analysis", Null, <<>>, 1, U1, 0, NoTab),
        Msg("run_davss_analysis", Null, <<>>, 0, <<>>, 0, PageTab),
        Msg("run_davss_analysis", Null, <<>>, 1, <<>>, 0, NoTab)}

\* the run_davss_analysis messages of the scorer specification
ScorerMessages ==
  {Msg("run_davss_analysis", Null, <<>>, t, u, n, tab) :
     t \in {0, 1}, u \in {<<>>, U1, U2, <<"WWW.", "www.", "EXAMPLE.COM", ":x">>},
     n \in {0, 1, 2}, tab \in {NoTab, PageTab}}

\* the ids of the tabs that may be active in the current window when a run
\* starts: the tab the popup names in its message, the tab of the sender
RouterTabs == {1}

ScorerTabs == {1, 7}

\* how chrome.tabs.captureVisibleTab settles
CaptureOutcomes ==
  {[ok |-> TRUE, message |-> "none"], [ok |-> FALSE, message |-> "Permission denied"]}

\* how the visual search settles: resolved with a value, or rejected
Resolved(v) == [ok |-> TRUE, value |-> v, message |-> "none"]

Rejected(m) == [ok |-> FALSE, value |-> NotArray("none"), message |-> m]

\* the result entries the visual search may return in the scorer
\* specification
EntryPool ==
  { Entry(<<"example.com">>, <<"https://", "example.com", "/">>),
    Entry(<<"google.com">>, <<>>),
    Entry(<<>>, <<"https://", "www.", "EXAMPLE.COM", "/", "?q">>),
    Entry(<<>>, <<"www.", "https://", "phish-example.com", ":x", "/">>),
    Entry(<<>>, <<"example.com">>),
    Entry(<<>>, <<>>),
    Entry(<<"www.">>, <<>>),
    Entry(<<"constructor">>, <<>>),
    NullEntry }

\* a list of eleven results, one more than the default topN
longResults == Append(mockResults, Entry(<<"google.com">>, <<>>))

SeqsUpTo(S, n) == UNION {[1..k -> S] : k \in 0..n}

ScorerSearchOutcomes ==
     {Resolved(ArrayOf(l)) : l \in SeqsUpTo(EntryPool, MaxResults)}
  \cup {Resolved(ArrayOf(mockResults)), Resolved(ArrayOf(longResults)),
        Resolved(NotArray("null")), Resolved(NotArray("object")),
        Rejected("HTTP 500")}

RouterSearchOutcomes ==
  {Resolved(ArrayOf(mockResults)), Rejected("HTTP 500")}

\* analyzeDomain(domain) of offpage.js: how the lookup settles.  It
\* resolves with an OffPageResult (the registration data of the domain, or
\* a tagged error, which the router passes on alike); the router also
\* provides for a rejection.
analyzeDomainOutcomes(domain) ==
  { [ok |-> TRUE,  value |-> [domain |-> domain, error |-> FALSE, reason |-> <<>>]],
    [ok |-> FALSE, value |-> Null] }

\* ------------------------------------------------------------------ state
VARIABLES
  latestFeatures,   \* background.js:6
  latestOffPage,    \* background.js:7
  latestDavss,      \* background.js:8
  storage,          \* chrome.storage.local
  inflight,         \* the bag of requests whose asynchronous work is pending
  last,             \* the request the latest step worked on, and what the
                    \* step did for it (calls made, response sent)
  answered,         \* the result in the response to the latest answered
                    \* run_davss_analysis request
  expected,         \* the data of the latest phiusiil_features message and,
                    \* per kind, the result in the response to the latest
                    \* answered run request that started its analysis
  getLog,           \* the values get_latest_features returned since the
                    \* latest phiusiil_features message (the last two)
  probe,            \* the calls of a pure function made on given arguments:
                    \* its name, the arguments, the values returned so far
  popup             \* the popup page (popup.js): where its callbacks are,
                    \* their locals, the text of the output element

routerVars == <<latestFeatures, latestOffPage, latestDavss, storage, inflight,
                last, answered, expected, getLog>>

vars == <<routerVars, probe, popup>>

\* the pending requests, and whether one more may start
Pending == BagToSet(inflight)

Room == BagCardinality(inflight) < MaxInFlight

Start(r) == inflight (+) SetToBag({r})

Finish(r) == inflight (-) SetToBag({r})

\* what a run has called so far; captureTarget is the id of the tab the
\* capture was taken of (0: no capture)
NoRun ==
  [ scoreCalls |-> 0, captureCalls |-> 0, captureFailed |-> FALSE,
    searchCalls |-> 0, extractCalls |-> 0, frequencyCalls |-> 0,
    scoreRejected |-> FALSE, lookupCalls |-> 0, vse |-> NotArray("none"),
    captureTarget |-> 0, searchFailed |-> FALSE, lookupFailed |-> FALSE ]

NoResponse == [none |-> TRUE]

\* the calls of a pure function: args are the arguments given, calls the
\* values returned so far
Probe(fn, args) == [fn |-> fn, args |-> args, calls |-> <<>>]

NoProbe == Probe("none", <<>>)

\* The popup page.  get is where the chrome.storage.local.get of line 16
\* is ("none", "issued", "read", "done"), stored what it read; chain is
\* where the callbacks of lines 23-43 are ("none", "asked", "query",
\* "lookup", "done"), onpage the local of line 24, domain the domain sent
\* in line 36; output is the text of the output element and fresh the
\* text built from the responses of the background.
NoOutput == [text |-> "none"]

PopupClosed ==
  [ get |-> "none", stored |-> [latestFeatures |-> Unset, offpage_results |-> Unset],
    chain |-> "none", onpage |-> Null, domain |-> <<>>,
    output |-> NoOutput, fresh |-> NoOutput ]

\* a pending request: its message, the locals of its handler, where it
\* waits ("lookup", "capture", "search"), the responses sent, the calls made
Request(pc, msg, tabId, url, topN, cleanDomain, run) ==
  [ pc |-> pc, msg |-> msg, tabId |-> tabId, url |-> url, topN |-> topN,
    cleanDomain |-> cleanDomain, responses |-> 0, run |-> run ]

\* the record of a step: pc is "pending" while the request waits for its
\* asynchronous work, "done" once its handler has nothing left to do
Step(msg, pc, responses, response, run) ==
  [ msg |-> msg, pc |-> pc, responses |-> responses, response |-> response,
    run |-> run ]

\* the router after the service worker has started (background.js:6-8)
Idle ==
  /\ latestFeatures = Null
  /\ latestOffPage = Null
  /\ latestDavss = Null
  /\ storage = [latestFeatures |-> Unset, offpage_results |-> Unset,
                davss_results |-> Unset]
  /\ inflight = EmptyBag
  /\ last = Step(NoMsg, "init", 0, NoResponse, NoRun)
  /\ answered = Null
  /\ expected = [features |-> Null, offpage |-> Null, davss |-> Null]
  /\ getLog = <<>>

Init == Idle /\ probe = NoProbe /\ popup = PopupClosed

\* ------------------------------------------------------- router handlers
\* a callback that forgets to call sendResponse
SendResponse_Forgotten(responses) == responses

\* sendResponse(...): one more response sent for the request
SendResponse(responses) == responses + 1

\* the handler without the assignment of line 14
StoreFeatures_StorageOnly(msg) ==
  /\ msg.type = "phiusiil_features"
  /\ storage' = [storage EXCEPT !.latestFeatures = msg.data]
  /\ last' = Step(msg, "done", SendResponse(0), [status |-> "stored"], NoRun)
  /\ getLog' = <<>>
  /\ expected' = [expected EXCEPT !.features = msg.data]
  /\ UNCHANGED <<latestFeatures, latestOffPage, latestDavss, inflight, answered,
                 probe, popup>>

\* background.js:13-18
StoreFeatures(msg) ==
  /\ msg.type = "phiusiil_features"
  /\ latestFeatures' = msg.data
  /\ storage' = [storage EXCEPT !.latestFeatures = msg.data]
  /\ last' = Step(msg, "done", SendResponse(0), [status |-> "stored"], NoRun)
  /\ getLog' = <<>>
  /\ expected' = [expected EXCEPT !.features = msg.data]
  /\ UNCHANGED <<latestOffPage, latestDavss, inflight, answered, probe, popup>>

\* background.js:21-24
GetLatestFeatures(msg) ==
  /\ msg.type = "get_latest_features"
  /\ last' = Step(msg, "done", SendResponse(0), [features |-> latestFeatures],
                  NoRun)
  /\ getLog' = IF Len(getLog) < 2 THEN Append(getLog, latestFeatures)
               ELSE <<getLog[2], latestFeatures>>
  /\ UNCHANGED <<latestFeatures, latestOffPage, latestDavss, storage, inflight,
                 answered, expected, probe, popup>>

\* s.replace(/^www\./, "")
StripLowerWww(s) == IF s # <<>> /\ Head(s) = "www." THEN Tail(s) ELSE s

\* line 28 without its toLowerCase()
CleanDomain_NoLowerCase(domain) == StripLowerWww(domain)

\* (msg.domain || "").toLowerCase().replace(/^www\./, "")   background.js:28
CleanDomain(domain) == StripLowerWww(toLowerCase(domain))

\* background.js:27-48, up to the return of the listener
RunOffpage(msg) ==
  /\ msg.type = "run_offpage_analysis"
  /\ LET cleanDomain == CleanDomain(msg.domain) IN
     \/ /\ cleanDomain = <<>>
        /\ LET r == [error |-> TRUE, reason |-> <<"Empty domain">>] IN
           last' = Step(msg, "done", SendResponse(0), [offpage |-> r], NoRun)
        /\ UNCHANGED inflight
     \/ /\ cleanDomain # <<>>
        /\ Room
        /\ LET run == [NoRun EXCEPT !.lookupCalls = 1] IN
           /\ inflight' = Start(Request("lookup", msg, 0, <<>>, 0, cleanDomain, run))
           /\ last' = Step(msg, "pending", 0, NoResponse, run)
  /\ UNCHANGED <<latestFeatures, latestOffPage, latestDavss, storage, answered,
                 expected, getLog, probe, popup>>

\* the catch callback of line 43 writing the DAVSS slot
LookupDone_WrongSlot(r, outcome) ==
  /\ r \in Pending
  /\ r.pc = "lookup"
  /\ \/ /\ outcome.ok
        /\ latestOffPage' = outcome.value
        /\ storage' = [storage EXCEPT !.offpage_results = outcome.value]
        /\ UNCHANGED latestDavss
     \/ /\ ~outcome.ok
        /\ latestDavss' = [error |-> TRUE, reason |-> <<"RDAP lookup failed">>]
        /\ UNCHANGED <<latestOffPage, storage>>
  /\ last' = Step(r.msg, "done", SendResponse(r.responses),
                  [offpage |-> latestOffPage'],
                  [r.run EXCEPT !.lookupFailed = ~outcome.ok])
  /\ expected' = [expected EXCEPT !.offpage = latestOffPage']
  /\ inflight' = Finish(r)
  /\ UNCHANGED <<latestFeatures, answered, getLog, probe, popup>>

\* background.js:37-45: the promise of analyzeDomain settles and the then
\* or the catch callback runs
LookupDone(r, outcome) ==
  /\ r \in Pending
  /\ r.pc = "lookup"
  /\ \/ /\ outcome.ok
        /\ latestOffPage' = outcome.value
        /\ storage' = [storage EXCEPT !.offpage_results = outcome.value]
     \/ /\ ~outcome.ok
        /\ latestOffPage' = [error |-> TRUE, reason |-> <<"RDAP lookup failed">>]
        /\ UNCHANGED storage
  /\ last' = Step(r.msg, "done", SendResponse(r.responses),
                  [offpage |-> latestOffPage'],
                  [r.run EXCEPT !.lookupFailed = ~outcome.ok])
  /\ expected' = [expected EXCEPT !.offpage = latestOffPage']
  /\ inflight' = Finish(r)
  /\ UNCHANGED <<latestFeatures, latestDavss, answered, getLog, probe, popup>>

\* the handler answering from chrome.storage.local instead of the slot
GetOffpage_FromStorage(msg) ==
  /\ msg.type = "get_offpage_results"
  /\ last' = Step(msg, "done", SendResponse(0),
                  [offpage |-> IF storage.offpage_results = Unset THEN Null
                               ELSE storage.offpage_results], NoRun)
  /\ UNCHANGED <<latestFeatures, latestOffPage, latestDavss, storage, inflight,
                 answered, expected, getLog, probe, popup>>

\* background.js:51-54
GetOffpage(msg) ==
  /\ msg.type = "get_offpage_results"
  /\ last' = Step(msg, "done", SendResponse(0), [offpage |-> latestOffPage], NoRun)
  /\ UNCHANGED <<latestFeatures, latestOffPage, latestDavss, storage, inflight,
                 answered, expected, getLog, probe, popup>>

\* line 62 with && for ||
MissingTabOrUrl_Both(tabId, url) == tabId = 0 /\ url = <<>>

\* background.js:62: !tabId || !url
MissingTabOrUrl(tabId, url) == tabId = 0 \/ url = <<>>

\* background.js:57-81, up to the return of the listener.  The call of
\* calculateDavssScore runs to its first await: captureVisibleTab is
\* called (davssService.js:194) before the listener returns.  Its first
\* argument is null, so it captures the tab that is active in the current
\* window at that moment, activeTab.
RunDavss(msg, activeTab) ==
  /\ msg.type = "run_davss_analysis"
  /\ LET tabId == IF msg.tabId # 0 THEN msg.tabId ELSE msg.senderTab.id
         url   == IF msg.url # <<>> THEN msg.url ELSE msg.senderTab.url
         topN  == IF msg.topN # 0 THEN msg.topN ELSE 10
     IN
     \/ /\ MissingTabOrUrl(tabId, url)
        /\ LET r == [error |-> TRUE, errorMessage |-> <<"Missing tabId or url">>] IN
           /\ last' = Step(msg, "done", SendResponse(0), [davss |-> r], NoRun)
           /\ answered' = r
        /\ UNCHANGED inflight
     \/ /\ ~MissingTabOrUrl(tabId, url)
        /\ Room
        /\ LET run == [NoRun EXCEPT !.scoreCalls = 1, !.captureCalls = 1,
                                    !.captureTarget = activeTab] IN
           /\ inflight' = Start(Request("capture", msg, tabId, url, topN, <<>>, run))
           /\ last' = Step(msg, "pending", 0, NoResponse, run)
        /\ UNCHANGED answered
  /\ UNCHANGED <<latestFeatures, latestOffPage, latestDavss, storage, expected,
                 getLog, probe, popup>>

\* background.js:70-78: the promise of calculateDavssScore has settled and
\* the then or the catch callback runs (in the same turn of the event loop)
DavssSettled(r, settled, run) ==
  /\ IF settled.rejected
       THEN /\ latestDavss' = [error |-> TRUE,
                               errorMessage |-> <<"DAVSS analysis failed: ",
                                                  settled.message>>]
            /\ UNCHANGED storage
       ELSE /\ latestDavss' = settled.result
            /\ storage' = [storage EXCEPT !.davss_results = settled.result]
  /\ last' = Step(r.msg, "done", SendResponse(r.responses), [davss |-> latestDavss'],
                  [run EXCEPT !.scoreRejected = settled.rejected])
  /\ answered' = latestDavss'
  /\ expected' = [expected EXCEPT !.davss = latestDavss']
  /\ inflight' = Finish(r)
  /\ UNCHANGED <<latestFeatures, latestOffPage, getLog, probe, popup>>

\* the capture without its own try/catch: the outer catch answers
CaptureFailure_OuterCatch(message) ==
  Fulfilled(ErrorResult(0, <<"Unexpected error: ", message>>))

\* davssService.js:193-209: what the inner catch around the capture
\* returns
CaptureFailure(message) ==
  Fulfilled(ErrorResult(0, <<"Failed to capture screenshot: ", message>>))

\* the capture called again when it has failed
CaptureDone_Retry(r, outcome) ==
  /\ r \in Pending
  /\ r.pc = "capture"
  /\ \/ /\ outcome.ok
        /\ LET run == [r.run EXCEPT !.searchCalls = @ + 1] IN
           /\ inflight' = Finish(r) (+) SetToBag({[r EXCEPT !.pc = "search",
                                                            !.run = run]})
           /\ last' = Step(r.msg, "pending", r.responses, NoResponse, run)
        /\ UNCHANGED <<latestFeatures, latestOffPage, latestDavss, storage,
                       answered, expected, getLog, probe, popup>>
     \/ /\ ~outcome.ok
        /\ LET run == [r.run EXCEPT !.captureCalls = @ + 1] IN
           /\ inflight' = Finish(r) (+) SetToBag({[r EXCEPT !.run = run]})
           /\ last' = Step(r.msg, "pending", r.responses, NoResponse, run)
        /\ UNCHANGED <<latestFeatures, latestOffPage, latestDavss, storage,
                       answered, expected, getLog, probe, popup>>

\* davssService.js:193-214: captureVisibleTab settles.  On success the
\* visual search is called and the run waits for it; on failure the run
\* resolves with the capture error.
CaptureDone(r, outcome) ==
  /\ r \in Pending
  /\ r.pc = "capture"
  /\ \/ /\ outcome.ok
        /\ LET run == [r.run EXCEPT !.searchCalls = @ + 1] IN
           /\ inflight' = Finish(r) (+) SetToBag({[r EXCEPT !.pc = "search",
                                                            !.run = run]})
           /\ last' = Step(r.msg, "pending", r.responses, NoResponse, run)
        /\ UNCHANGED <<latestFeatures, latestOffPage, latestDavss, storage,
                       answered, expected, getLog, probe, popup>>
     \/ /\ ~outcome.ok
        /\ DavssSettled(r, CaptureFailure(outcome.message),
                        [r.run EXCEPT !.captureFailed = TRUE])

\* davssService.js:228-239: what the catch around the visual search returns
SearchFailure(message) ==
  Fulfilled(ErrorResult(0, <<"VSE request failed: ", message>>))

\* davssService.js:216-315 and background.js:70-78: the body has run on
\* the value the visual search resolved with
SearchResolved(r, body, vseResults) ==
  DavssSettled(r, Settle(body),
    [r.run EXCEPT !.extractCalls = @ + body.extractCalls,
                  !.frequencyCalls = @ + body.frequencyCalls,
                  !.vse = vseResults])

\* the run scoring against the url of whichever run is pending, as if
\* currentUrl were shared between the runs
SearchDone_SharedUrl(r, outcome) ==
  /\ r \in Pending
  /\ r.pc = "search"
  /\ \/ /\ outcome.ok
        /\ \E q \in Pending :
             /\ q.pc \in {"capture", "search"}
             /\ SearchResolved(r, ScoreBody(q.url, r.topN, outcome.value),
                               outcome.value)
     \/ /\ ~outcome.ok
        /\ DavssSettled(r, SearchFailure(outcome.message),
                        [r.run EXCEPT !.searchFailed = TRUE])

\* davssService.js:214-315: the visual search settles and the run settles
SearchDone(r, outcome) ==
  /\ r \in Pending
  /\ r.pc = "search"
  /\ \/ /\ outcome.ok
        /\ SearchResolved(r, ScoreBody(r.url, r.topN, outcome.value), outcome.value)
     \/ /\ ~outcome.ok
        /\ DavssSettled(r, SearchFailure(outcome.message),
                        [r.run EXCEPT !.searchFailed = TRUE])

\* background.js:84-87
GetDavss(msg) ==
  /\ msg.type = "get_davss_results"
  /\ last' = Step(msg, "done", SendResponse(0), [davss |-> latestDavss], NoRun)
  /\ UNCHANGED <<latestFeatures, latestOffPage, latestDavss, storage, inflight,
                 answered, expected, getLog, probe, popup>>

\* a message of a type no branch of the listener handles: the listener
\* returns undefined and sends nothing
Unhandled(msg) ==
  /\ msg.type \notin {"phiusiil_features", "get_latest_features",
                      "run_offpage_analysis", "get_offpage_results",
                      "run_davss_analysis", "get_davss_results"}
  /\ last' = Step(msg, "done", 0, NoResponse, NoRun)
  /\ UNCHANGED <<latestFeatures, latestOffPage, latestDavss, storage, inflight,
                 answered, expected, getLog, probe, popup>>

\* ---------------------------------------------------------- specifications
\* the router under any interleaving of messages and completions
Next ==
  \/ \E msg \in RouterMessages : StoreFeatures(msg)
  \/ \E msg \in RouterMessages : GetLatestFeatures(msg)
  \/ \E msg \in RouterMessages : RunOffpage(msg)
  \/ \E r \in Pending : \E o \in analyzeDomainOutcomes(r.cleanDomain) :
       LookupDone(r, o)
  \/ \E msg \in RouterMessages : GetOffpage(msg)
  \/ \E msg \in RouterMessages : \E tab \in RouterTabs : RunDavss(msg, tab)
  \/ \E r \in Pending : \E o \in CaptureOutcomes : CaptureDone(r, o)
  \/ \E r \in Pending : \E o \in RouterSearchOutcomes : SearchDone(r, o)
  \/ \E msg \in RouterMessages : GetDavss(msg)
  \/ \E msg \in RouterMessages : Unhandled(msg)

Spec == Init /\ [][Next]_vars

\* one run_davss_analysis request, with every input and every behaviour of
\* the capture and of the visual search
NextScorer ==
  \/ last.pc = "init" /\ \E msg \in ScorerMessages : \E tab \in ScorerTabs :
                             RunDavss(msg, tab)
  \/ \E r \in Pending : \E o \in CaptureOutcomes : CaptureDone(r, o)
  \/ \E r \in Pending : \E o \in ScorerSearchOutcomes : SearchDone(r, o)

SpecScorer == Init /\ [][NextScorer]_vars

\* ------------------------------------------------------------ popup.js
\* res.latestFeatures || null: a key the store does not hold reads as
\* undefined
OrNull(v) == IF v = Unset \/ v = Null THEN Null ELSE v

\* popup.js:7-13: the payload show() writes to the output element
Show(onpage, offpage) ==
  [ text    |-> "json",
    OnPage  |-> IF onpage = Null THEN [text |-> "No data yet"] ELSE onpage,
    OffPage |-> IF offpage = Null
                  THEN [error |-> TRUE, reason |-> <<"RDAP not run or failed">>]
                ELSE offpage ]

\* what chrome.tabs.query may pass to its callback as tabs[0]: no tab, or
\* the active tab
PopupTabs ==
  { NoTab, PageTab, [present |-> TRUE, id |-> 1, url |-> U1],
    [present |-> TRUE, id |-> 2, url |-> <<"https://", "www.", "/">>] }

\* the messages the popup sends
AskFeatures == Plain("get_latest_features")

AskOffpage(domain) == Msg("run_offpage_analysis", Null, domain, 0, <<>>, 0, NoTab)

\* popup.js:3-23: the page has loaded; the storage read and the first
\* message are issued
PopupOpen ==
  /\ popup.chain = "none"
  /\ popup' = [popup EXCEPT !.get = "issued", !.chain = "asked",
                            !.output = [text |-> "Loading..."]]
  /\ UNCHANGED <<routerVars, probe>>

\* chrome.storage.local.get reads the two keys
PopupStorageRead ==
  /\ popup.get = "issued"
  /\ popup' = [popup EXCEPT !.get = "read",
                            !.stored = [latestFeatures  |-> storage.latestFeatures,
                                        offpage_results |-> storage.offpage_results]]
  /\ UNCHANGED <<routerVars, probe>>

\* popup.js:16-20: the callback of the storage read
PopupStorageCallback ==
  /\ popup.get = "read"
  /\ popup' = [popup EXCEPT !.get = "done",
                            !.output = Show(OrNull(popup.stored.latestFeatures),
                                            OrNull(popup.stored.offpage_results))]
  /\ UNCHANGED <<routerVars, probe>>

\* popup.js:23-27: the response to get_latest_features has arrived
PopupFeaturesCallback ==
  /\ popup.chain = "asked"
  /\ last.pc = "done"
  /\ last.msg = AskFeatures
  /\ popup' = [popup EXCEPT !.chain = "query",
                            !.onpage = OrNull(last.response.features)]
  /\ UNCHANGED <<routerVars, probe>>

\* line 33: new URL(tabs[0].url).hostname.toLowerCase().replace(/^www\./, "")
PopupDomain(url) == StripLowerWww(toLowerCase(URLHostname(url).hostname))

\* popup.js:27-36: the callback of chrome.tabs.query
PopupTabsCallback(tab) ==
  /\ popup.chain = "query"
  /\ IF ~tab.present \/ tab.url = <<>>
       THEN popup' = [popup EXCEPT !.chain = "done",
                                   !.output = Show(popup.onpage, Null),
                                   !.fresh = Show(popup.onpage, Null)]
     ELSE popup' = [popup EXCEPT !.chain = "lookup", !.domain = PopupDomain(tab.url)]
  /\ UNCHANGED <<routerVars, probe>>

\* popup.js:37-40: the response to run_offpage_analysis has arrived
PopupOffpageCallback ==
  /\ popup.chain = "lookup"
  /\ last.pc = "done"
  /\ last.msg = AskOffpage(popup.domain)
  /\ popup' = [popup EXCEPT !.chain = "done",
                            !.output = Show(popup.onpage, OrNull(last.response.offpage)),
                            !.fresh = Show(popup.onpage, OrNull(last.response.offpage))]
  /\ UNCHANGED <<routerVars, probe>>

\* what the background holds when the popup opens: nothing, or the features
\* of the page and the result of an earlier lookup
OldOffPage == [domain |-> <<"example.com">>, error |-> FALSE, reason |-> <<>>]

InitPopup ==
  /\ latestFeatures \in {Null, [page |-> "p1"]}
  /\ latestOffPage \in {Null, OldOffPage}
  /\ latestDavss = Null
  /\ storage = [latestFeatures  |-> IF latestFeatures = Null THEN Unset
                                    ELSE latestFeatures,
                offpage_results |-> IF latestOffPage = Null THEN Unset
                                    ELSE latestOffPage,
                davss_results   |-> Unset]
  /\ inflight = EmptyBag
  /\ last = Step(NoMsg, "init", 0, NoResponse, NoRun)
  /\ answered = Null
  /\ expected = [features |-> latestFeatures, offpage |-> latestOffPage,
                 davss |-> Null]
  /\ getLog = <<>>
  /\ probe = NoProbe
  /\ popup = PopupClosed

\* the popup, the background handling its two messages, and the lookup
NextPopup ==
  \/ PopupOpen
  \/ PopupStorageRead
  \/ PopupStorageCallback
  \/ popup.chain = "asked" /\ last.pc = "init" /\ GetLatestFeatures(AskFeatures)
  \/ PopupFeaturesCallback
  \/ \E tab \in PopupTabs : PopupTabsCallback(tab)
  \/ popup.chain = "lookup" /\ last.msg = AskFeatures
       /\ RunOffpage(AskOffpage(popup.domain))
  \/ \E r \in Pending : \E o \in analyzeDomainOutcomes(r.cleanDomain) :
       LookupDone(r, o)
  \/ PopupOffpageCallback

SpecPopup == InitPopup /\ [][NextPopup]_vars

\* ------------------------------------------------------- standardizeDomain
\* the strings standardizeDomain is called on: every sequence of at most
\* MaxTokens of these tokens
DomainTokens ==
  {"https://", "http://", "www.", "WWW.", "example.com", "EXAMPLE.COM", "/", "?q",
   ":x"}

DomainInputs == SeqsUpTo(DomainTokens, MaxTokens)

\* the argument of the next call: the given string first, then the value
\* the previous call returned
NextArgument(p) == IF p.calls = <<>> THEN p.args[1] ELSE p.calls[Len(p.calls)]

\* one call of standardizeDomain (davssService.js:19-47)
CallStandardizeDomain ==
  /\ probe.fn = "standardizeDomain"
  /\ Len(probe.calls) < 2
  /\ probe' = [probe EXCEPT !.calls = Append(@, standardizeDomain(NextArgument(probe)))]
  /\ UNCHANGED <<routerVars, popup>>

InitNormalizer ==
  /\ Idle
  /\ probe \in {Probe("standardizeDomain", <<x>>) : x \in DomainInputs}
  /\ popup = PopupClosed

NextNormalizer == CallStandardizeDomain

SpecNormalizer == InitNormalizer /\ [][NextNormalizer]_vars

\* -------------------------------------------------- jaccardTokenSimilarity
\* A string of content.js is a sequence of characters.  Letters and digits
\* are word characters (\w); " " and the punctuation are not.
Chars == {"a", "A", "b", " "}

WordChars == {"a", "A", "b", "h", "t", "p", "s", "1"}

TextInputs == SeqsUpTo(Chars, MaxChars)

LowerChar(c) == IF c = "A" THEN "a" ELSE c

lowerText(s) == [i \in DOMAIN s |-> LowerChar(s[i])]

\* s.split(/[^\w]+/).filter(Boolean): the maximal runs of word characters
\* of s, in order; word is the run read so far
RECURSIVE SplitWords(_, _)
SplitWords(s, word) ==
  IF s = <<>> THEN (IF word = <<>> THEN <<>> ELSE <<word>>)
  ELSE IF Head(s) \in WordChars THEN SplitWords(Tail(s), Append(word, Head(s)))
  ELSE (IF word = <<>> THEN <<>> ELSE <<word>>) \o SplitWords(Tail(s), <<>>)

\* content.js:12-13
Tokens(s) == SplitWords(lowerText(s), <<>>)

\* new Set(list)
SetOf(list) == {list[i] : i \in DOMAIN list}

\* the loop of lines 19-21 running over the token list instead of the set
InterCount_OverList(toksA, setB) == Cardinality({i \in DOMAIN toksA : toksA[i] \in setB})

\* content.js:16-21: the members of setA that setB has
InterCount(toksA, setB) == Cardinality({t \in SetOf(toksA) : t \in setB})

\* content.js:23
Ratio(inter, union) == IF union = 0 THEN Zero ELSE Frac(inter, union)

\* content.js:14-23
JaccardOfTokens(toksA, toksB) ==
  IF toksA = <<>> \/ toksB = <<>> THEN Zero
  ELSE Ratio(InterCount(toksA, SetOf(toksB)),
             Cardinality(SetOf(toksA) \cup SetOf(toksB)))

\* content.js:10-24
jaccardTokenSimilarity(a, b) ==
  IF a = <<>> \/ b = <<>> THEN Zero ELSE JaccardOfTokens(Tokens(a), Tokens(b))

\* a call of jaccardTokenSimilarity: on (a, b) first, then on (b, a)
CallJaccard ==
  /\ probe.fn = "jaccardTokenSimilarity"
  /\ Len(probe.calls) < 2
  /\ probe' = [probe EXCEPT !.calls =
                 Append(@, IF @ = <<>>
                             THEN jaccardTokenSimilarity(probe.args[1], probe.args[2])
                           ELSE jaccardTokenSimilarity(probe.args[2], probe.args[1]))]
  /\ UNCHANGED <<routerVars, popup>>

InitJaccard ==
  /\ Idle
  /\ probe \in {Probe("jaccardTokenSimilarity", <<a, b>>) : a, b \in TextInputs}
  /\ popup = PopupClosed

NextJaccard == CallJaccard

SpecJaccard == InitJaccard /\ [][NextJaccard]_vars

\* ------------------------------------------------ extractPhiUSIILFeatures
\* A feature value: a number (kept as a fraction), a string, null or
\* undefined.
Num(n) == [number |-> Frac(n, 1)]

Quot(n, d) == [number |-> Frac(n, d)]

Str(s) == [string |-> s]

Undefined == [undefined |-> TRUE]

\* character classes of the regular expressions of lines 48-52 and the
\* punctuation of line 54 (its double quote, backslash and backquote,
\* which no serialized URL holds, are left out)
Letters == {"a", "A", "b", "h", "t", "p", "s"}

Digits == {"1"}

Punctuation ==
  {"!", "#", "$", "%", "&", "'", "(", ")", "*", "+", ",", "-", ".", "/", ":",
   ";", "<", "=", ">", "?", "@", "[", "]", "^", "_", "{", "|", "}", "~"}

\* countMatches(str, regex) for a regex that matches one character of S
countMatches(str, S) == Cardinality({i \in DOMAIN str : str[i] \in S})

\* s.split("."): part is the part read so far
RECURSIVE SplitDot(_, _)
SplitDot(s, part) ==
  IF s = <<>> THEN <<part>>
  ELSE IF Head(s) = "." THEN <<part>> \o SplitDot(Tail(s), <<>>)
  ELSE SplitDot(Tail(s), Append(part, Head(s)))

\* lines 42-45
TldOf(parts) == IF Len(parts) > 1 THEN parts[Len(parts)] ELSE <<>>

tldPart(domain) == TldOf(SplitDot(domain, <<>>))

\* line 71: Math.max(domain.split(".").length - 2, 0)
NoOfSubDomain(parts) == IF Len(parts) - 2 > 0 THEN Len(parts) - 2 ELSE 0

\* line 228: /^\d{1,3}(\.\d{1,3}){3}$/.test(domain)
IsIP(parts) ==
  /\ Len(parts) = 4
  /\ \A i \in 1..4 : /\ Len(parts[i]) \in 1..3
                     /\ \A k \in DOMAIN parts[i] : parts[i][k] \in Digits

\* lines 35-38: the longest line
RECURSIVE MaxOf(_, _)
MaxOf(lines, max) ==
  IF lines = <<>> THEN max
  ELSE MaxOf(Tail(lines), IF Head(lines) > max THEN Head(lines) ELSE max)

\* line 75: titleText.trim().length > 0
HasTitle(titleText) == \E i \in DOMAIN titleText : titleText[i] # " "

\* lines 84-95
IsResponsive(viewport) == viewport \in {"width=device-width", "initial-scale"}

\* lines 221: protocol.toLowerCase().startsWith("https")
IsHTTPS(protocol) ==
  Len(protocol) >= 5 /\ lowerText(SubSeq(protocol, 1, 5)) = <<"h", "t", "t", "p", "s">>

\* urlObj.protocol.replace(":", "")
ProtocolWord(protocol) == SelectSeq(protocol, LAMBDA c : c # ":")

\* lines 113-130 over the forms of the document
ExternalSubmit(forms) ==
  \E i \in DOMAIN forms : forms[i].action \in {"external", "invalid"}

\* lines 152-173 over the anchors of the document: an anchor has the text
\* of its href attribute (attr), the host its URL resolves to (host:
\* "self", "external", "social", "none", or "invalid" when new URL throws)
\* and whether its resolved URL is that of the page (toPage)
EmptyRef(a) == a.attr \in {"", "#", "javascript:void(0)"}

CountAnchors(anchors, hosts) ==
  Cardinality({i \in DOMAIN anchors : anchors[i].host \in hosts})

\* the features object of lines 230-299, before the loop of lines 302-306
RawFeatures(doc) ==
  [ FileName |-> Null,
    URL |-> Str(doc.href),
    URLLength |-> Num(Len(doc.href)),
    Domain |-> Str(doc.hostname),
    DomainLength |-> Num(Len(doc.hostname)),
    IsDomainIP |-> Num(IF IsIP(SplitDot(doc.hostname, <<>>)) THEN 1 ELSE 0),
    TLD |-> Str(tldPart(doc.hostname)),
    TLDLength |-> Num(Len(tldPart(doc.hostname))),
    NoOfSubDomain |-> Num(NoOfSubDomain(SplitDot(doc.hostname, <<>>))),
    URLSimilarityIndex |-> Null,
    CharContinuationRate |-> Null,
    TLDLegitimateProb |-> Null,
    URLCharProb |-> Null,
    HasObfuscation |-> Null,
    NoOfObfuscatedChar |-> Null,
    ObfuscationRatio |-> Null,
    NoOfLettersInURL |-> Num(countMatches(doc.href, Letters)),
    LetterRatioInURL |-> Quot(countMatches(doc.href, Letters),
                              IF Len(doc.href) = 0 THEN 1 ELSE Len(doc.href)),
    NoOfDigitsInURL |-> Num(countMatches(doc.href, Digits)),
    DigitRatioInURL |-> Quot(countMatches(doc.href, Digits),
                             IF Len(doc.href) = 0 THEN 1 ELSE Len(doc.href)),
    NoOfEqualSignInURL |-> Num(countMatches(doc.href, {"="})),
    NoOfQMarkInURL |-> Num(countMatches(doc.href, {"?"})),
    NoOfAmpersandInURL |-> Num(countMatches(doc.href, {"&"})),
    NoOfOtherSpecialCharsInURL |->
      Num(countMatches(doc.href, Punctuation \ {"=", "?", "&"})),
    SpecialCharRatioInURL |-> Quot(countMatches(doc.href, Punctuation),
                                   IF Len(doc.href) = 0 THEN 1 ELSE Len(doc.href)),
    IsHTTPS |-> Num(IF IsHTTPS(ProtocolWord(doc.protocol)) THEN 1 ELSE 0),
    LineOfCode |-> Num(Len(doc.lines)),
    LargestLineLength |-> Num(MaxOf(doc.lines, 0)),
    HasTitle |-> Num(IF HasTitle(doc.title) THEN 1 ELSE 0),
    Title |-> Str(doc.title),
    DomainTitleMatchScore |->
      [number |-> jaccardTokenSimilarity(doc.hostname, doc.title)],
    URLTitleMatchScore |-> [number |-> jaccardTokenSimilarity(doc.href, doc.title)],
    HasFavicon |-> Num(IF doc.favicon THEN 1 ELSE 0),
    Robots |-> Num(IF doc.robots THEN 1 ELSE 0),
    IsResponsive |-> Num(IF IsResponsive(doc.viewport) THEN 1 ELSE 0),
    NoOfURLRedirect |-> Num(doc.metaRefresh),
    NoOfSelfRedirect |->
      Num(Cardinality({i \in DOMAIN doc.anchors : doc.anchors[i].toPage})),
    HasDescription |-> Num(IF doc.description THEN 1 ELSE 0),
    NoOfPopUp |-> Num(doc.popups),
    NoOfFrame |-> Num(doc.frames + doc.iframes),
    HasExternalFormSubmit |-> Num(IF ExternalSubmit(doc.forms) THEN 1 ELSE 0),
    HasSocialNet |-> Num(IF CountAnchors(doc.anchors, {"social"}) > 0 THEN 1 ELSE 0),
    HasSubmitButton |->
      Num(IF \E i \in DOMAIN doc.forms : doc.forms[i].submit THEN 1 ELSE 0),
    HasHiddenFields |->
      Num(IF \E i \in DOMAIN doc.forms : doc.forms[i].hidden THEN 1 ELSE 0),
    HasPasswordField |->
      Num(IF \E i \in DOMAIN doc.forms : doc.forms[i].password THEN 1 ELSE 0),
    Bank_Pay_Crypto |-> Num(IF doc.bankWords THEN 1 ELSE 0),
    HasCopyrightInfo |-> Num(IF doc.copyright THEN 1 ELSE 0),
    NoOfImage |-> Num(doc.images),
    NoOfCSS |-> Num(doc.stylesheets + doc.styles),
    NoOfJS |-> Num(doc.scripts),
    NoOfSelfRef |-> Num(CountAnchors(doc.anchors, {"self"})),
    NoOfEmptyRef |->
      Num(Cardinality({i \in DOMAIN doc.anchors : EmptyRef(doc.anchors[i])})),
    NoOfExternalRef |-> Num(CountAnchors(doc.anchors, {"external", "social"})),
    label |-> Null ]

\* the loop of lines 302-306 without its assignment
CoerceNull_Kept(v) == v

\* lines 303-305: null and undefined become 0
CoerceNull(v) == IF v = Null \/ v = Undefined THEN Num(0) ELSE v

\* the loop of lines 302-306
CoerceAll(features) == [k \in DOMAIN features |-> CoerceNull(features[k])]

\* content.js:26-309
extractPhiUSIILFeatures(doc) == CoerceAll(RawFeatures(doc))

\* the pages the extractor runs on
Href1 == <<"h", "t", "t", "p", "s", ":", "/", "/", "a", ".", "b", "/">>

Href2 ==
  <<"h", "t", "t", "p", ":", "/", "/", "1", ".", "1", ".", "1", ".", "1", "/", "?",
    "a", "=", "1", "&", "b">>

Locations ==
  { [href |-> Href1, hostname |-> <<"a", ".", "b">>,
     protocol |-> <<"h", "t", "t", "p", "s", ":">>],
    [href |-> Href2, hostname |-> <<"1", ".", "1", ".", "1", ".", "1">>,
     protocol |-> <<"h", "t", "t", "p", ":">>] }

Form(action, submit, hidden, password) ==
  [action |-> action, submit |-> submit, hidden |-> hidden, password |-> password]

Anchor(attr, host, toPage) == [attr |-> attr, host |-> host, toPage |-> toPage]

FormLists ==
  { <<>>, <<Form("", TRUE, FALSE, FALSE)>>,
    <<Form("same", FALSE, TRUE, TRUE), Form("external", TRUE, FALSE, TRUE)>> }

AnchorLists ==
  { <<>>,
    <<Anchor("", "self", TRUE), Anchor("#", "self", FALSE),
      Anchor("javascript:void(0)", "none", FALSE),
      Anchor("https://facebook.com/x", "social", FALSE),
      Anchor("https://c.b/", "external", FALSE),
      Anchor("http://", "invalid", FALSE)>> }

\* rich tells whether the page has the remaining elements (meta tags,
\* frames, style sheets, pop-ups, bank and copyright words)
Document(loc, title, favicon, forms, anchors, images, scripts, rich) ==
  [ href |-> loc.href, hostname |-> loc.hostname, protocol |-> loc.protocol,
    lines |-> IF rich THEN <<15, 80, 7>> ELSE <<0>>,
    title |-> title, favicon |-> favicon, robots |-> rich,
    viewport |-> IF rich THEN "width=device-width" ELSE "none",
    description |-> rich, popups |-> IF rich THEN 1 ELSE 0,
    frames |-> 0, iframes |-> IF rich THEN 2 ELSE 0,
    forms |-> forms, anchors |-> anchors, bankWords |-> rich, copyright |-> rich,
    images |-> images, stylesheets |-> IF rich THEN 1 ELSE 0,
    styles |-> IF rich THEN 1 ELSE 0, scripts |-> scripts,
    metaRefresh |-> IF rich THEN 1 ELSE 0 ]

Documents ==
  { Document(loc, title, favicon, forms, anchors, images, scripts, rich) :
      loc \in Locations, title \in {<<>>, <<" ">>, <<"A", " ", "b">>},
      favicon \in BOOLEAN, forms \in FormLists, anchors \in AnchorLists,
      images \in {0, 2}, scripts \in {0, 1}, rich \in BOOLEAN }

\* the call of extractPhiUSIILFeatures of runFeatureExtraction (line 314)
CallExtract ==
  /\ probe.fn = "extractPhiUSIILFeatures"
  /\ probe.calls = <<>>
  /\ probe' = [probe EXCEPT !.calls = <<extractPhiUSIILFeatures(probe.args[1])>>]
  /\ UNCHANGED <<routerVars, popup>>

InitExtractor ==
  /\ Idle
  /\ probe \in {Probe("extractPhiUSIILFeatures", <<doc>>) : doc \in Documents}
  /\ popup = PopupClosed

NextExtractor == CallExtract

SpecExtractor == InitExtractor /\ [][NextExtractor]_vars

\* ----------------------------------------------------------------- claims
Handled ==
  {"phiusiil_features", "get_latest_features", "run_offpage_analysis",
   "get_offpage_results", "run_davss_analysis", "get_davss_results"}

\* the latest step answered a run_davss_analysis request with what
\* calculateDavssScore settled with
Scored ==
  /\ last.pc = "done"
  /\ last.msg.type = "run_davss_analysis"
  /\ last.run.scoreCalls = 1

DavssResult == last.response.davss

\* the tab id and the url a run_davss_analysis request carries, in the
\* message or else in the tab of its sender
TabIdOf(msg) == IF msg.tabId # 0 THEN msg.tabId ELSE msg.senderTab.id

UrlOf(msg) == IF msg.url # <<>> THEN msg.url ELSE msg.senderTab.url

\* a number in the interval (0,1]
InUnitInterval(x) == x.den > 0 /\ x.num > 0 /\ x.num <= x.den

\* C1: every result calculateDavssScore resolves with that has error ==
\* true has similarityScore == -1, frequencyCount == 0 and totalResults == 0.
C1_ErrorResultZeroed ==
  (Scored /\ DavssResult.error) =>
    /\ DavssResult.similarityScore = MinusOne
    /\ DavssResult.frequencyCount = 0
    /\ DavssResult.totalResults = 0

DavssFields ==
  {"similarityScore", "confidenceScore", "currentDomain", "trueDomain",
   "frequencyCount", "totalResults", "error", "errorMessage"}

IsNumber(x) == DOMAIN x = {"num", "den"} /\ x.den > 0

WellFormed(r) ==
  /\ DOMAIN r = DavssFields
  /\ r.error \in BOOLEAN
  /\ IsNumber(r.similarityScore)
  /\ IsNumber(r.confidenceScore)
  /\ r.frequencyCount \in Nat
  /\ r.totalResults \in Nat
  /\ r.error <=> r.errorMessage # <<>>

\* C2: calculateDavssScore never rejects and always resolves with a result
\* that carries the eight fields of a DavssResult, whatever the tab id, the
\* url, topN and the behaviour of the capture and of the visual search.
C2_AlwaysWellFormed ==
  Scored => ~last.run.scoreRejected /\ WellFormed(DavssResult)

C2_Witness ==
  /\ Scored
  /\ DavssResult.errorMessage = <<"Unexpected error: ", "Cannot read properties of null">>

\* C3: every handler of the router calls sendResponse exactly once for a
\* request: not before the asynchronous work of the request has settled,
\* once when it has, on the success and on the failure path.
C3_RespondsExactlyOnce ==
  /\ \A r \in Pending : r.responses = 0
  /\ last.pc = "pending" => last.responses = 0
  /\ (last.pc = "done" /\ last.msg.type \in Handled) => last.responses = 1

C3_Witness ==
  /\ last.pc = "done"
  /\ last.msg.type = "run_offpage_analysis"
  /\ last.response.offpage.reason = <<"RDAP lookup failed">>

\* C4: when the screenshot capture fails the run resolves with error ==
\* true and a message of the capture failure, and neither the visual
\* search nor the domain extraction nor the frequency analysis is called.
C4_CaptureFailureStops ==
  (Scored /\ last.run.captureFailed) =>
    /\ DavssResult.error
    /\ Head(DavssResult.errorMessage) = "Failed to capture screenshot: "
    /\ last.run.searchCalls = 0
    /\ last.run.extractCalls = 0
    /\ last.run.frequencyCalls = 0

C4_Witness == Scored /\ last.run.captureFailed /\ last.run.captureCalls = 1

\* C5: in a result without error similarityScore is 0 when the normalized
\* domain of the current page equals the winning domain (trueDomain) and
\* is confidenceScore otherwise; for the ten results of which seven are on
\* example.com a page on example.com gets 0 with confidence 0.7, a page on
\* phish-example.com gets 0.7.
C5_SimilarityByComparison ==
  (Scored /\ ~DavssResult.error) =>
    /\ DavssResult.similarityScore =
         IF standardizeDomain(UrlOf(last.msg)) = DavssResult.trueDomain
           THEN Zero ELSE DavssResult.confidenceScore
    /\ (last.run.vse = ArrayOf(mockResults) /\ last.msg.topN = 0) =>
         /\ DavssResult.confidenceScore = Frac(7, 10)
         /\ DavssResult.trueDomain = <<"example.com">>
         /\ UrlOf(last.msg) = U1 => DavssResult.similarityScore = Zero
         /\ UrlOf(last.msg) = U2 => DavssResult.similarityScore = Frac(7, 10)

C5_Witness ==
  /\ Scored
  /\ last.run.vse = ArrayOf(mockResults)
  /\ last.msg.topN = 0
  /\ UrlOf(last.msg) = U2
  /\ DavssResult.similarityScore = Frac(7, 10)

ValidationError == [error |-> TRUE, errorMessage |-> <<"Missing tabId or url">>]

\* C6 as stated: a run_davss_analysis request whose tabId or url field is
\* missing is answered with {davss: {error: true, errorMessage}} and the
\* scorer is not called.
C6_MissingFieldRejected ==
  (last.msg.type = "run_davss_analysis" /\ (last.msg.tabId = 0 \/ last.msg.url = <<>>)) =>
    /\ last.pc = "done"
    /\ last.response = [davss |-> ValidationError]
    /\ last.run.scoreCalls = 0

\* C6 amended: a run_davss_analysis request for which the tab id or the url
\* is missing in the message and in the tab of the sender is answered with
\* {davss: {error: true, errorMessage}}, and neither the scorer nor the
\* capture nor the visual search is called for it.
C6_MissingEverywhereRejected ==
  (last.msg.type = "run_davss_analysis"
     /\ (TabIdOf(last.msg) = 0 \/ UrlOf(last.msg) = <<>>)) =>
    /\ last.pc = "done"
    /\ last.response = [davss |-> ValidationError]
    /\ last.run.scoreCalls = 0
    /\ last.run.captureCalls = 0
    /\ last.run.searchCalls = 0

C6_Witness ==
  /\ last.msg.type = "run_davss_analysis"
  /\ last.msg.tabId = 0
  /\ last.msg.url # <<>>
  /\ ~last.msg.senderTab.present
  /\ last.responses = 1

\* C7: a run_offpage_analysis request whose domain is absent, "" or empty
\* once lower-cased and stripped of a leading www. is answered at once with
\* {offpage: {error: true, reason}} and analyzeDomain is not called.
C7_EmptyDomainRejected ==
  (last.msg.type = "run_offpage_analysis"
     /\ last.msg.domain \in {<<>>, <<"www.">>, <<"WWW.">>}) =>
    /\ last.pc = "done"
    /\ last.response = [offpage |-> [error |-> TRUE, reason |-> <<"Empty domain">>]]
    /\ last.run.lookupCalls = 0

C7_Witness ==
  /\ last.msg.type = "run_offpage_analysis"
  /\ last.msg.domain = <<"WWW.">>
  /\ last.responses = 1

\* C8 as stated: get_davss_results returns null while no run_davss_analysis
\* request has been answered and else the result sent in the response to
\* the run_davss_analysis request answered most recently.
C8_LatestAnswered ==
  (last.msg.type = "get_davss_results") => last.response = [davss |-> answered]

\* C8 amended: get_davss_results (get_offpage_results) returns null while
\* no run request of its kind that passed the validation of its input has
\* been answered, and else the result sent in the response to the most
\* recently answered of these requests, whether its run succeeded or failed.
C8_LatestComputed ==
  /\ (last.msg.type = "get_davss_results") =>
        last.response = [davss |-> expected.davss]
  /\ (last.msg.type = "get_offpage_results") =>
        last.response = [offpage |-> expected.offpage]

C8_Witness ==
  /\ last.msg.type = "get_offpage_results"
  /\ last.response.offpage = [error |-> TRUE, reason |-> <<"RDAP lookup failed">>]
  /\ storage.offpage_results # Unset

\* C9: get_latest_features returns null before any phiusiil_features
\* message and else the data of the latest one; the values it returns
\* between two such messages are all the same, whatever off-page or DAVSS
\* request starts or completes in between.
C9_LatestFeatures ==
  /\ (last.msg.type = "get_latest_features") =>
        last.response = [features |-> expected.features]
  /\ \A i, j \in DOMAIN getLog : getLog[i] = getLog[j]

C9_Witness ==
  /\ Len(getLog) = 2
  /\ getLog[2] = [page |-> "p2"]
  /\ last.msg.type = "run_davss_analysis"
  /\ last.pc = "done"

\* C10: every result calculateDavssScore resolves with that has error ==
\* false has similarityScore 0 or in (0,1] and confidenceScore in (0,1].
C10_ScoresInRange ==
  (Scored /\ ~DavssResult.error) =>
    /\ DavssResult.similarityScore = Zero \/ InUnitInterval(DavssResult.similarityScore)
    /\ InUnitInterval(DavssResult.confidenceScore)

C10_Witness ==
  /\ Scored
  /\ ~DavssResult.error
  /\ DavssResult.confidenceScore = Frac(2, 3)
  /\ DavssResult.similarityScore = Zero

\* C11: when the visual search resolves with an empty list, or with a value
\* that is not a list, the run resolves with error = TRUE and
\* similarityScore = -1 and has called neither extractDomainsFromResults
\* nor findMostFrequentDomain.
C11_NoResultsIsError ==
  (Scored /\ last.run.searchCalls = 1 /\ last.run.vse # NotArray("none")
          /\ (last.run.vse.kind # "array" \/ Len(last.run.vse.items) = 0))
    => /\ DavssResult.error = TRUE
       /\ DavssResult.similarityScore = MinusOne
       /\ last.run.extractCalls = 0
       /\ last.run.frequencyCalls = 0

\* the search resolved with an empty list, and the run has answered
C11_Witness ==
  /\ Scored
  /\ last.run.vse = ArrayOf(<<>>)
  /\ DavssResult.errorMessage = <<"VSE returned no results">>

\* C12: standardizeDomain is idempotent: called on a value it returned, it
\* returns that value again.
C12_Idempotent ==
  (probe.fn = "standardizeDomain" /\ Len(probe.calls) = 2)
    => probe.calls[2] = probe.calls[1]

\* the set of lower-cased words of s: the maximal runs of word characters
WordRun(s, i, j) ==
  /\ \A k \in i..j : s[k] \in WordChars
  /\ (i = 1 \/ s[i - 1] \notin WordChars)
  /\ (j = Len(s) \/ s[j + 1] \notin WordChars)

WordSet(s) ==
  { [k \in 1..(j - i + 1) |-> LowerChar(s[i + k - 1])] :
      <<i, j>> \in {p \in (DOMAIN s) \X (DOMAIN s) : p[1] <= p[2] /\ WordRun(s, p[1], p[2])} }

\* x = n / d for the fraction x
IsRatio(x, n, d) == x.num * d = n * x.den

JaccardIndex(x, A, B) ==
  IF A = {} \/ B = {} THEN x = Zero
  ELSE IsRatio(x, Cardinality(A \cap B), Cardinality(A \cup B))

\* C13: jaccardTokenSimilarity(a, b) is 0 when a or b has no word and
\* |A \cap B| / |A \cup B| otherwise, A and B being the sets of lower-cased
\* words of a and b; it lies in [0, 1], and jaccardTokenSimilarity(b, a)
\* is the same number.
C13_JaccardIndex ==
  (probe.fn = "jaccardTokenSimilarity" /\ Len(probe.calls) >= 1)
    => /\ JaccardIndex(probe.calls[1], WordSet(probe.args[1]), WordSet(probe.args[2]))
       /\ probe.calls[1].den > 0
       /\ 0 <= probe.calls[1].num /\ probe.calls[1].num <= probe.calls[1].den
       /\ Len(probe.calls) = 2 => probe.calls[2] = probe.calls[1]

\* both calls made on two strings that share one of several words, one of
\* them written in upper case and repeated
C13_Witness ==
  /\ probe.fn = "jaccardTokenSimilarity"
  /\ Len(probe.calls) = 2
  /\ probe.args = << <<"A", " ", "a">>, <<"a", " ", "b">> >>
  /\ probe.calls[1] = Frac(1, 2)

\* the features that are null or undefined before the final loop
NullKeys(features) == {k \in DOMAIN features : features[k] \in {Null, Undefined}}

NullFeatures == NullKeys(RawFeatures(probe.args[1]))

\* C14: the record extractPhiUSIILFeatures returns holds no null and no
\* undefined value; every feature that was null or undefined before the
\* final loop is 0 in it.
C14_NoNullFeature ==
  (probe.fn = "extractPhiUSIILFeatures" /\ Len(probe.calls) = 1)
    => /\ \A k \in DOMAIN probe.calls[1] : probe.calls[1][k] \notin {Null, Undefined}
       /\ \A k \in NullFeatures : probe.calls[1][k] = Num(0)

\* the extractor has run on a page without title, favicon, forms, anchors,
\* images and scripts, and the features the source leaves null are 0
C14_Witness ==
  /\ probe.fn = "extractPhiUSIILFeatures"
  /\ Len(probe.calls) = 1
  /\ probe.args[1] = Document(CHOOSE l \in Locations : l.href = Href1, <<>>, FALSE,
                              <<>>, <<>>, 0, 0, FALSE)
  /\ probe.calls[1].FileName = Num(0)
  /\ probe.calls[1].label = Num(0)
  /\ probe.calls[1].HasTitle = Num(0)

\* the topN a run works with (background.js:60), and the standardized
\* domains it extracted from the first topN results
TopNOf(msg) == IF msg.topN # 0 THEN msg.topN ELSE 10

AnalysedDomains ==
  extractDomainsFromResults(Slice(last.run.vse.items, TopNOf(last.msg))).domains

\* position of the first occurrence of d in list
FirstIndex(list, d) == CHOOSE i \in DOMAIN list : list[i] = d /\ \A j \in 1..(i - 1) : list[j] # d

\* w occurs in list at least as often as every other domain of list, and
\* before every domain that occurs as often
MostFrequentFirst(list, w) ==
  /\ \E i \in DOMAIN list : list[i] = w
  /\ \A i \in DOMAIN list :
       list[i] # <<>> =>
         /\ CountOf(list, w) >= CountOf(list, list[i])
         /\ CountOf(list, w) = CountOf(list, list[i])
              => FirstIndex(list, w) <= FirstIndex(list, list[i])

WinnerOf(result, list) ==
  /\ MostFrequentFirst(list, result.trueDomain)
  /\ result.frequencyCount = CountOf(list, result.trueDomain)

\* C15: in a result without error the winning domain occurs in the list of
\* extracted domains at least as often as every other domain, frequencyCount
\* is the number of its occurrences, and among the domains with the highest
\* count it is the one that occurs first.
C15_WinnerIsMostFrequent ==
  (Scored /\ ~DavssResult.error) => WinnerOf(DavssResult, AnalysedDomains)

\* C16: the capture of a run is taken of the tab whose id the run was
\* called with (tabId of background.js:58).
C16_CapturesRequestedTab ==
  /\ \A r \in Pending : r.run.captureCalls > 0 => r.run.captureTarget = r.tabId
  /\ (last.msg.type = "run_davss_analysis" /\ last.run.captureCalls > 0)
       => last.run.captureTarget = TabIdOf(last.msg)

\* the number of non-empty domains of list
ValidCount(list) == Cardinality({i \in DOMAIN list : list[i] # <<>>})

ConfidenceOf(result, list) ==
  /\ IsRatio(result.confidenceScore, result.frequencyCount, result.totalResults)
  /\ result.totalResults = ValidCount(list)
  /\ result.frequencyCount = CountOf(list, result.trueDomain)

\* C17: in a result without error confidenceScore is frequencyCount /
\* totalResults, totalResults is the number of non-empty standardized
\* domains extracted from the analysed results, and frequencyCount is the
\* number of those equal to the winning domain.
C17_ConfidenceIsShare ==
  (Scored /\ ~DavssResult.error) => ConfidenceOf(DavssResult, AnalysedDomains)

\* the first n entries of list, in their order
FirstN(list, n) == [i \in 1..(IF n < Len(list) THEN n ELSE Len(list)) |-> list[i]]

\* a result that has a domain field, or a url that the URL constructor or
\* the regular expression of line 113 reads a host from
Contributes(e) ==
  \/ e.domain # <<>>
  \/ e.url # <<>> /\ (URLHostname(e.url).ok \/ RegexHost(e.url) # <<>>)

ContributingCount(list) == Cardinality({i \in DOMAIN list : Contributes(list[i])})

\* what the run returns for the list of results it was given, and for
\* that list cut to its first topN entries
OnlyFirstTopN(result, url, topN, items, considered) ==
  /\ result.totalResults <= topN
  /\ result = Settle(ScoreBody(url, topN, ArrayOf(considered))).result
  /\ (\A i \in DOMAIN considered : ~considered[i].isNull)
       => /\ Len(AnalysedDomains) = ContributingCount(considered)
          /\ ContributingCount(considered) = 0
               => /\ result.error
                  /\ result.errorMessage = <<"No valid domains found in VSE results">>
                  /\ last.run.frequencyCalls = 0

\* C18: the run works on the first topN results only (topN is 10 when the
\* message gives none), in their order: totalResults is at most topN and
\* the result is the one the first topN results alone give; a result
\* without a domain field and without a parseable url adds no domain; and
\* when no result adds a domain the run ends with the error 'No valid
\* domains found in VSE results' without calling findMostFrequentDomain.
C18_FirstTopNOnly ==
  (Scored /\ last.run.vse.kind = "array" /\ last.run.vse.items # <<>>)
    => OnlyFirstTopN(DavssResult, UrlOf(last.msg), TopNOf(last.msg),
                     last.run.vse.items,
                     FirstN(last.run.vse.items, TopNOf(last.msg)))

\* a run on eleven results and the default topN has analysed ten of them
C18_Witness ==
  /\ Scored
  /\ last.msg.topN = 0
  /\ Len(last.run.vse.items) = 11
  /\ ~DavssResult.error
  /\ DavssResult.totalResults = 10
  /\ DavssResult.frequencyCount = 7

\* the capture, the visual search and the lookup were called at most once
CalledAtMostOnce(run) ==
  run.captureCalls <= 1 /\ run.searchCalls <= 1 /\ run.lookupCalls <= 1

AnyFailure(run) == run.captureFailed \/ run.searchFailed \/ run.lookupFailed

NoLaterStage(run) == run.extractCalls = 0 /\ run.frequencyCalls = 0

\* C19: no request calls the capture, the visual search or the lookup more
\* than once; a request of which one of them has failed is answered with
\* the error result of that failure, is no longer pending, and has called
\* no later stage.
C19_NoRetries ==
  /\ \A r \in Pending : CalledAtMostOnce(r.run) /\ ~AnyFailure(r.run)
  /\ CalledAtMostOnce(last.run)
  /\ AnyFailure(last.run) => last.pc = "done" /\ last.responses = 1
  /\ last.run.captureFailed
       => /\ DavssResult.error
          /\ Head(DavssResult.errorMessage) = "Failed to capture screenshot: "
          /\ last.run.searchCalls = 0 /\ NoLaterStage(last.run)
  /\ last.run.searchFailed
       => /\ DavssResult.error
          /\ Head(DavssResult.errorMessage) = "VSE request failed: "
          /\ NoLaterStage(last.run)
  /\ last.run.lookupFailed
       => last.response.offpage = [error |-> TRUE, reason |-> <<"RDAP lookup failed">>]

\* a run whose visual search failed after one capture and one search
C19_Witness ==
  /\ last.pc = "done"
  /\ last.run.searchFailed
  /\ last.run.captureCalls = 1
  /\ last.run.searchCalls = 1
  /\ \E r \in Pending : r.pc = "lookup" /\ r.run.lookupCalls = 1

\* what a step that works on a request of the given type leaves unchanged
OwnSlotOnly(type) ==
  /\ type = "phiusiil_features" => UNCHANGED <<latestOffPage, latestDavss>>
  /\ type = "run_offpage_analysis" => UNCHANGED <<latestFeatures, latestDavss>>
  /\ type = "run_davss_analysis" => UNCHANGED <<latestFeatures, latestOffPage>>
  /\ type \notin {"phiusiil_features", "run_offpage_analysis", "run_davss_analysis"}
       => UNCHANGED <<latestFeatures, latestOffPage, latestDavss>>

\* C20: every step of the router, whether it handles a message or completes
\* a pending request, changes at most the slot of the kind of request it
\* works on; the get requests and the messages of other types change none.
C20_OwnSlotOnly == [][OwnSlotOnly(last'.msg.type)]_vars

\* all three slots are written, a lookup is pending, and a message of an
\* unknown type has just been handled
C20_Witness ==
  /\ latestFeatures # Null
  /\ latestOffPage # Null
  /\ latestDavss # Null
  /\ last.msg.type = "ping"
  /\ \E r \in Pending : r.pc = "lookup"

\* what chrome.storage.local holds under a key when it mirrors a slot
Mirror(slot) == IF slot = Null THEN Unset ELSE slot

\* C21: between the steps of the handlers chrome.storage.local mirrors the
\* slots: latestFeatures, offpage_results and davss_results hold the values
\* of latestFeatures, latestOffPage and latestDavss, and a key is unset
\* exactly when its slot is null, also after a run that failed.
C21_StoreMirrorsSlots ==
  /\ storage.latestFeatures = Mirror(latestFeatures)
  /\ storage.offpage_results = Mirror(latestOffPage)
  /\ storage.davss_results = Mirror(latestDavss)

\* C22: once the popup has shown the content built from the responses of
\* the background (the response to run_offpage_analysis, or the fallback
\* without an active tab), its output element keeps that content, however
\* the callback of the storage read is ordered with the other callbacks.
C22_FreshStays == popup.chain = "done" => popup.output = popup.fresh

\* C23: a response to a run_davss_analysis request that carries a result
\* without error carries the result of that request: its currentDomain is
\* the standardized domain of the url of the request, whichever other
\* requests are pending or have completed in between.
C23_OwnResult ==
  (Scored /\ ~DavssResult.error)
    => DavssResult.currentDomain = standardizeDomain(UrlOf(last.msg))

\* a request for one url is answered with its result while a request for
\* another url, started earlier or later, is still pending
C23_Witness ==
  /\ Scored
  /\ ~DavssResult.error
  /\ UrlOf(last.msg) = U2
  /\ DavssResult.currentDomain = <<"phish-example.com">>
  /\ \E r \in Pending : r.pc \in {"capture", "search"} /\ r.url = U1
====
